---- MODULE Spec2Model ----
(***************************************************************************)
(* Model of selecao_pedidos_otima.py: the order/corridor wave-selection    *)
(* CSP, the generator-based backtracking search over an NaryCSP, and the   *)
(* best-wave selection and reporting that consume its solutions.           *)
(*                                                                         *)
(* Variable names are interned: a variable is its position in VarNames.    *)
(* Python dicts are functions from a set of variables to values.  Dicts    *)
(* that the program shares by reference (the assignments) live in `heap`   *)
(* and are held through references, so that aliasing and copying are       *)
(* distinguishable.  Python's 0-based indices are 1-based here.            *)
(***************************************************************************)
EXTENDS Integers, Sequences, FiniteSets, TLC

(***************************************************************************)
(* Bounds of the model                                                     *)
(***************************************************************************)
\* number of successive invocations list(backtracking(csp)) that are driven
NumRuns == 2

(***************************************************************************)
(* Generic helpers                                                         *)
(***************************************************************************)
RECURSIVE SumSeq(_)
SumSeq(s) == IF s = <<>> THEN 0 ELSE Head(s) + SumSeq(Tail(s))

Min2(a, b) == IF a <= b THEN a ELSE b

RECURSIVE SortedSeq(_)
\* sorted(S) for a finite set of integers: ascending
SortedSeq(S) ==
    IF S = {} THEN <<>>
    ELSE LET m == CHOOSE x \in S : \A y \in S : x <= y
         IN  <<m>> \o SortedSeq(S \ {m})

Range(s) == {s[k] : k \in 1..Len(s)}

EmptyDict == [v \in {} |-> 0]

\* d[var] = value on a dict (adds the key or overwrites it)
DictSet(d, var, value) ==
    [v \in (DOMAIN d) \cup {var} |-> IF v = var THEN value ELSE d[v]]

(***************************************************************************)
(* Problem data (lines 10-32)                                              *)
(***************************************************************************)
orders ==
    << <<3, 0, 1, 0, 0>>,
       <<0, 1, 0, 1, 0>>,
       <<0, 0, 1, 0, 2>>,
       <<1, 0, 2, 1, 1>>,
       <<0, 1, 0, 0, 0>> >>

order_totals == [o \in 1..Len(orders) |-> SumSeq(orders[o])]

corridors ==
    << <<2, 1, 1, 0, 1>>,
       <<2, 1, 2, 0, 1>>,
       <<0, 2, 0, 1, 2>>,
       <<2, 1, 0, 1, 1>>,
       <<0, 1, 2, 1, 2>> >>

LB == 5
UB == 12

(***************************************************************************)
(* Variables, domains and constraints (lines 41-78)                        *)
(***************************************************************************)
\* the variable names in use, those of the script first
VarNames ==
    <<"Pedido1", "Pedido2", "Pedido3", "Pedido4", "Pedido5",
      "Corredor1", "Corredor2", "Corredor3", "Corredor4", "Corredor5",
      "A", "B", "X", "Y", "Z">>

\* the variable of a name
V(name) == CHOOSE id \in 1..Len(VarNames) : VarNames[id] = name

orders_variables ==
    <<V("Pedido1"), V("Pedido2"), V("Pedido3"), V("Pedido4"), V("Pedido5")>>

corridors_variables ==
    <<V("Corredor1"), V("Corredor2"), V("Corredor3"), V("Corredor4"),
      V("Corredor5")>>

all_variables == orders_variables \o corridors_variables

\* the dict `domains`: keys in insertion order, and the value set of each key
domains ==
    [keys |-> all_variables,
     dom  |-> [v \in Range(all_variables) |-> {0, 1}]]

\* mutant: the lower bound compared strictly (LB < total <= UB)
total_demand_constraint_strict(order_vals, lb, ub) ==
    LET n     == Min2(Len(order_totals), Len(order_vals))
        total == SumSeq([k \in 1..n |-> order_totals[k] * order_vals[k]])
    IN  lb < total /\ total <= ub

\* mutant: the lower bound forgotten (total <= UB)
total_demand_constraint_no_lower(order_vals, lb, ub) ==
    LET n     == Min2(Len(order_totals), Len(order_vals))
        total == SumSeq([k \in 1..n |-> order_totals[k] * order_vals[k]])
    IN  total <= ub

\* total_demand_constraint(*order_vals), reading the globals lb, ub
total_demand_constraint(order_vals, lb, ub) ==
    LET n     == Min2(Len(order_totals), Len(order_vals))
        total == SumSeq([k \in 1..n |-> order_totals[k] * order_vals[k]])
    IN  lb <= total /\ total <= ub

\* mutant: the comparison reversed (demand >= capacity)
constraint_func_reversed(i, vals) ==
    LET order_vals    == SubSeq(vals, 1, 5)
        corridor_vals == SubSeq(vals, 6, Len(vals))
        demand   == SumSeq([o \in 1..5 |-> orders[o][i] * order_vals[o]])
        capacity == SumSeq([a \in 1..5 |-> corridors[a][i] * corridor_vals[a]])
    IN  demand >= capacity

\* item_constraint_factory(i)(*vals)
constraint_func(i, vals) ==
    LET order_vals    == SubSeq(vals, 1, 5)
        corridor_vals == SubSeq(vals, 6, Len(vals))
        demand   == SumSeq([o \in 1..5 |-> orders[o][i] * order_vals[o]])
        capacity == SumSeq([a \in 1..5 |-> corridors[a][i] * corridor_vals[a]])
    IN  demand <= capacity

\* Constraint(scope, condition); the condition is a tagged closure
Con(scope, kind, i, lb, ub) ==
    [scope |-> scope, kind |-> kind, i |-> i, lb |-> lb, ub |-> ub]

\* the list `constraints` for demand bounds lb, ub
constraints(lb, ub) ==
    <<Con(orders_variables, "total_demand", 0, lb, ub)>>
    \o [j \in 1..Len(orders) |-> Con(all_variables, "item", j, 0, 0)]

(***************************************************************************)
(* Model instances handed to NaryCSP(domains, constraints)                 *)
(***************************************************************************)
\* a dict of domains from its keys in insertion order and their value sets
Domains(keys, dom) == [keys |-> keys, dom |-> dom]

\* the script's own model, and the same data with unreachable demand bounds
WaveModels == {"csp_instance", "unreachable_bounds"}

Models ==
    WaveModels \cup {"a_plus_b", "always_fails", "unequal_domains",
                     "empty_domain"}

InstanceTable ==
    [m \in Models |->
        CASE m = "csp_instance" ->
               [domains |-> domains, constraints |-> constraints(LB, UB)]
          [] m = "unreachable_bounds" ->
               [domains |-> domains, constraints |-> constraints(16, 20)]
          [] m = "a_plus_b" ->
               [domains |-> Domains(<<V("A"), V("B")>>,
                                    [v \in {V("A"), V("B")} |-> {0, 1}]),
                constraints |->
                    <<Con(<<V("A"), V("B")>>, "sum_is_one", 0, 0, 0)>>]
          [] m = "always_fails" ->
               [domains |-> Domains(<<V("A")>>, [v \in {V("A")} |-> {0}]),
                constraints |-> <<Con(<<V("A")>>, "never", 0, 0, 0)>>]
          [] m = "unequal_domains" ->
               [domains |-> Domains(<<V("X"), V("Y"), V("Z")>>,
                                    [v \in {V("X"), V("Y"), V("Z")} |->
                                       CASE v = V("X") -> {0, 1, 2}
                                         [] v = V("Y") -> {1}
                                         [] v = V("Z") -> {0, 1}]),
                constraints |->
                    <<Con(<<V("X"), V("Z")>>, "sum_is_one", 0, 0, 0)>>]
          [] m = "empty_domain" ->
               [domains |-> Domains(<<V("A"), V("B")>>,
                                    [v \in {V("A"), V("B")} |->
                                       IF v = V("A") THEN {0, 1} ELSE {}]),
                constraints |->
                    <<Con(<<V("A"), V("B")>>, "sum_is_one", 0, 0, 0)>>]]

\* the (domains, constraints) pair of a model
Instance(m) == InstanceTable[m]

(***************************************************************************)
(* The csp module: Constraint and NaryCSP                                  *)
(***************************************************************************)
\* the predicate held by a constraint, applied to one value per scope variable
condition(con, vals) ==
    CASE con.kind = "total_demand" ->
           total_demand_constraint(vals, con.lb, con.ub)
      [] con.kind = "item"       -> constraint_func(con.i, vals)
      [] con.kind = "sum_is_one" -> SumSeq(vals) = 1
      [] con.kind = "never"      -> FALSE

\* Constraint.holds(assignment): the predicate on the values in scope order
holds(con, assignment) ==
    condition(con, [k \in 1..Len(con.scope) |-> assignment[con.scope[k]]])

\* mutant: the domains are not inspected
NaryCSP_init_scopes_only(doms, cons) ==
    \A k \in 1..Len(cons) : Range(cons[k].scope) \subseteq Range(doms.keys)

\* NaryCSP(domains, constraints) succeeds: no empty domain, no unknown
\* variable in a scope
NaryCSP_init(doms, cons) ==
    /\ \A v \in Range(doms.keys) : doms.dom[v] # {}
    /\ \A k \in 1..Len(cons) : Range(cons[k].scope) \subseteq Range(doms.keys)

\* NaryCSP.consistent(assignment): every constraint whose scope is bound holds
consistent(csp, assignment) ==
    \A k \in 1..Len(csp.constraints) :
        Range(csp.constraints[k].scope) \subseteq DOMAIN assignment
            => holds(csp.constraints[k], assignment)

(***************************************************************************)
(* State                                                                   *)
(***************************************************************************)
VARIABLES
    model,          \* which (domains, constraints) pair the script is run on
    pc,             \* position of the script
    run,            \* number of completed invocations of backtracking
    stack,          \* the chain of suspended generator frames, outermost first
    heap,           \* the assignment dicts that are still referenced
    next_ref,       \* the next fresh reference
    emitted,        \* per invocation, the references yielded, in order
    last_try,       \* the last new_assignment checked, and consistent's answer
    step,           \* the step taken last
    printed,        \* waves printed by the loop over all solutions
    idx,            \* loop index of the selection loop
    best_solution,
    best_obj,
    best_index

vars ==
    <<model, pc, run, stack, heap, next_ref, emitted, last_try, step,
      printed, idx, best_solution, best_obj, best_index>>

\* the dict created once by the default argument assignment={}
DefaultRef == 0

\* None, as a reference
NoneRef == -1

\* the NaryCSP built from the instance
Csp == Instance(model)

\* solutions = list(backtracking(csp_instance)): the first invocation's list
solutions == emitted[1]

(***************************************************************************)
(* backtracking(csp, assignment={})                                        *)
(***************************************************************************)
\* len(assignment) == len(csp.domains)
complete(csp, assignment) ==
    Cardinality(DOMAIN assignment) = Len(csp.domains.keys)

\* unassigned = [v for v in csp.domains if v not in assignment]
unassigned(csp, assignment) ==
    SelectSeq(csp.domains.keys, LAMBDA v : v \notin DOMAIN assignment)

\* mutant: the first unassigned variable, whatever its domain size
select_variable_first(csp, assignment) == unassigned(csp, assignment)[1]

\* min(unassigned, key=lambda v: len(csp.domains[v])): the first minimal one
select_variable(csp, assignment) ==
    LET u       == unassigned(csp, assignment)
        size(k) == Cardinality(csp.domains.dom[u[k]])
        first   == CHOOSE k \in 1..Len(u) :
                      /\ \A j \in 1..Len(u) : size(k) <= size(j)
                      /\ \A j \in 1..(k - 1) : size(j) > size(k)
    IN  u[first]

\* sorted(csp.domains[var])
sorted_values(csp, var) == SortedSeq(csp.domains.dom[var])

\* mutant: no copy, new_assignment is the caller's dict itself
new_assignment_alias(h, assignment, fresh, var, value) ==
    [ref  |-> assignment,
     heap |-> [h EXCEPT ![assignment] = DictSet(@, var, value)]]

\* mutant: the binding is made on the caller's dict, which is then copied
new_assignment_bind_first(h, assignment, fresh, var, value) ==
    LET bound == [h EXCEPT ![assignment] = DictSet(@, var, value)]
    IN  [ref  |-> fresh, heap |-> bound @@ (fresh :> bound[assignment])]

\* new_assignment = assignment.copy(); new_assignment[var] = value
\* `assignment` is a reference into h, `fresh` the reference of the copy
new_assignment(h, assignment, fresh, var, value) ==
    LET copied == h @@ (fresh :> h[assignment])
    IN  [ref  |-> fresh,
         heap |-> [copied EXCEPT ![fresh] = DictSet(@, var, value)]]

\* a generator frame just created by a call, not yet run
Frame(assignment) ==
    [assignment |-> assignment, pc |-> "start", var |-> 0, values |-> <<>>,
     i |-> 0]

\* the innermost frame finishes: its caller resumes the loop at the next value
Finish(stk) ==
    LET rest == SubSeq(stk, 1, Len(stk) - 1)
    IN  IF rest = <<>> THEN rest
        ELSE [rest EXCEPT ![Len(rest)].pc = "loop", ![Len(rest)].i = @ + 1]

\* the dict ref is dropped once no frame, no list and no default holds it
Release(h, ref, stk, em) ==
    IF /\ ref # DefaultRef
       /\ \A k \in 1..Len(stk) : stk[k].assignment # ref
       /\ \A r \in DOMAIN em : \A k \in 1..Len(em[r]) : em[r][k] # ref
    THEN [r \in (DOMAIN h) \ {ref} |-> h[r]]
    ELSE h

Top == stack[Len(stack)]

(***************************************************************************)
(* objective and print_solution                                            *)
(***************************************************************************)
\* objective(solution) as the exact ratio <<numerator, denominator>>;
\* the int -1 is <<-1, 1>>
objective(solution) ==
    LET total_units ==
            SumSeq([o \in 1..Len(orders) |->
                       order_totals[o] * solution[orders_variables[o]]])
        num_corridors ==
            SumSeq([a \in 1..Len(corridors) |->
                       solution[corridors_variables[a]]])
    IN  IF num_corridors > 0 THEN <<total_units, num_corridors>>
        ELSE <<-1, 1>>

\* mutant: strict comparison (obj_val > best_obj)
obj_gt(obj_val, best) == obj_val[1] * best[2] > best[1] * obj_val[2]

\* obj_val >= best_obj on ratios with positive denominators
obj_ge(obj_val, best) == obj_val[1] * best[2] >= best[1] * obj_val[2]

\* print_solution(sol, index) returns: sol is a dict holding every Pedido and
\* Corredor key (it subscripts sol with each of them)
print_solution(h, sol) ==
    /\ sol # NoneRef
    /\ Range(all_variables) \subseteq DOMAIN h[sol]

(***************************************************************************)
(* Initial state                                                           *)
(***************************************************************************)
Init ==
    /\ model \in Models
    /\ pc = "construct"
    /\ run = 0
    /\ stack = <<>>
    /\ heap = [r \in {DefaultRef} |-> EmptyDict]
    /\ next_ref = DefaultRef + 1
    /\ emitted = [r \in 1..NumRuns |-> <<>>]
    /\ last_try = [a |-> EmptyDict, ok |-> TRUE, n |-> 0]
    /\ step = "Init"
    /\ printed = 0
    /\ idx = 0
    /\ best_solution = NoneRef
    /\ best_obj = <<-1, 1>>
    /\ best_index = -1

(***************************************************************************)
(* Steps                                                                   *)
(***************************************************************************)
\* csp_instance = NaryCSP(domains, constraints)
Construct ==
    /\ step' = "Construct"
    /\ pc = "construct"
    /\ pc' = IF NaryCSP_init(Instance(model).domains,
                             Instance(model).constraints)
             THEN "call" ELSE "construct_failed"
    /\ UNCHANGED <<model, run, stack, heap, next_ref, emitted, last_try,
                   printed, idx, best_solution, best_obj, best_index>>

\* list(backtracking(csp_instance)) starts the generator on the default dict
Call ==
    /\ step' = "Call"
    /\ pc = "call"
    /\ pc' = "search"
    /\ stack' = <<Frame(DefaultRef)>>
    /\ UNCHANGED <<model, run, heap, next_ref, emitted, last_try, printed,
                   idx, best_solution, best_obj, best_index>>

\* a frame whose assignment is complete yields it and finishes
Yield ==
    /\ step' = "Yield"
    /\ pc = "search" /\ stack # <<>>
    /\ Top.pc = "start"
    /\ complete(Csp, heap[Top.assignment])
    /\ emitted' = [emitted EXCEPT ![run + 1] = Append(@, Top.assignment)]
    /\ stack' = Finish(stack)
    /\ heap' = Release(heap, Top.assignment, stack', emitted')
    /\ UNCHANGED <<model, pc, run, next_ref, last_try, printed, idx,
                   best_solution, best_obj, best_index>>

\* a frame whose assignment is partial selects its variable and its values
Enter ==
    /\ step' = "Enter"
    /\ pc = "search" /\ stack # <<>>
    /\ Top.pc = "start"
    /\ ~complete(Csp, heap[Top.assignment])
    /\ LET var == select_variable(Csp, heap[Top.assignment])
       IN  stack' = [stack EXCEPT ![Len(stack)] =
                        [@ EXCEPT !.pc = "loop", !.var = var,
                                  !.values = sorted_values(Csp, var),
                                  !.i = 1]]
    /\ UNCHANGED <<model, pc, run, heap, next_ref, emitted, last_try,
                   printed, idx, best_solution, best_obj, best_index>>

\* one iteration of the for loop: copy, bind, check, recurse if consistent
TryValue ==
    /\ step' = "TryValue"
    /\ pc = "search" /\ stack # <<>>
    /\ Top.pc = "loop" /\ Top.i <= Len(Top.values)
    /\ LET na == new_assignment(heap, Top.assignment, next_ref, Top.var,
                                Top.values[Top.i])
           ok == consistent(Csp, na.heap[na.ref])
       IN  /\ stack' = IF ok
                       THEN Append([stack EXCEPT ![Len(stack)].pc =
                                       "yield_from"], Frame(na.ref))
                       ELSE [stack EXCEPT ![Len(stack)].i = @ + 1]
           /\ heap' = Release(na.heap, na.ref, stack', emitted)
           /\ last_try' = [a |-> na.heap[na.ref], ok |-> ok,
                           n |-> last_try.n + 1]
    /\ next_ref' = next_ref + 1
    /\ UNCHANGED <<model, pc, run, emitted, printed, idx, best_solution,
                   best_obj, best_index>>

\* the for loop is exhausted: the frame finishes
Return ==
    /\ step' = "Return"
    /\ pc = "search" /\ stack # <<>>
    /\ Top.pc = "loop" /\ Top.i > Len(Top.values)
    /\ stack' = Finish(stack)
    /\ heap' = Release(heap, Top.assignment, stack', emitted)
    /\ UNCHANGED <<model, pc, run, next_ref, emitted, last_try, printed, idx,
                   best_solution, best_obj, best_index>>

\* the generator is exhausted and list(...) returns; the caller invokes the
\* search once more over the same model
Reinvoke ==
    /\ step' = "Reinvoke"
    /\ pc = "search" /\ stack = <<>>
    /\ run + 1 < NumRuns
    /\ run' = run + 1
    /\ pc' = "call"
    /\ UNCHANGED <<model, stack, heap, next_ref, emitted, last_try, printed,
                   idx, best_solution, best_obj, best_index>>

\* the generator is exhausted and list(...) returns; on to the reporting code
Collect ==
    /\ step' = "Collect"
    /\ pc = "search" /\ stack = <<>>
    /\ run' = run + 1
    /\ pc' = "print_all"
    /\ UNCHANGED <<model, stack, heap, next_ref, emitted, last_try, printed,
                   idx, best_solution, best_obj, best_index>>

\* for idx, sol in enumerate(solutions, start=1): print_solution(sol, idx)
PrintWave ==
    /\ step' = "PrintWave"
    /\ pc = "print_all"
    /\ IF printed < Len(solutions)
       THEN IF print_solution(heap, solutions[printed + 1])
            THEN printed' = printed + 1 /\ pc' = pc
            ELSE pc' = "raised" /\ printed' = printed
       ELSE pc' = "select" /\ printed' = printed
    /\ UNCHANGED <<model, run, stack, heap, next_ref, emitted, last_try, idx,
                   best_solution, best_obj, best_index>>

\* the selection loop: one iteration, or its exit
Select ==
    /\ step' = "Select"
    /\ pc = "select"
    /\ IF idx < Len(solutions)
       THEN LET sol     == solutions[idx + 1]
                obj_val == objective(heap[sol])
            IN  /\ idx' = idx + 1
                /\ pc' = pc
                /\ IF obj_ge(obj_val, best_obj)
                   THEN /\ best_obj' = obj_val
                        /\ best_solution' = sol
                        /\ best_index' = idx + 1
                   ELSE UNCHANGED <<best_obj, best_solution, best_index>>
       ELSE /\ pc' = "print_best"
            /\ UNCHANGED <<idx, best_obj, best_solution, best_index>>
    /\ UNCHANGED <<model, run, stack, heap, next_ref, emitted, last_try,
                   printed>>

\* print_solution(best_solution, best_index)
PrintBest ==
    /\ step' = "PrintBest"
    /\ pc = "print_best"
    /\ pc' = IF print_solution(heap, best_solution) THEN "done" ELSE "raised"
    /\ UNCHANGED <<model, run, stack, heap, next_ref, emitted, last_try,
                   printed, idx, best_solution, best_obj, best_index>>

Next ==
    \/ Construct
    \/ Call
    \/ Yield
    \/ Enter
    \/ TryValue
    \/ Return
    \/ Reinvoke
    \/ Collect
    \/ PrintWave
    \/ Select
    \/ PrintBest

Spec == Init /\ [][Next]_vars

(***************************************************************************)
(* Vocabulary of the properties, stated from the problem and not from the  *)
(* program's functions                                                     *)
(***************************************************************************)
AllVars == Range(all_variables)

OrderVars == Range(orders_variables)

\* the generator of the current invocation is exhausted
Exhausted == pc = "search" /\ stack = <<>>

\* the reporting code has been entered
AfterSearch == pc \in {"print_all", "select", "print_best", "done", "raised"}

\* the selection loop has been left
AfterSelection ==
    \/ pc \in {"print_best", "done"}
    \/ pc = "raised" /\ printed = Len(solutions)

\* units of the selected orders
Units(a) ==
    SumSeq([o \in 1..5 |->
               IF a[orders_variables[o]] = 1 THEN SumSeq(orders[o]) ELSE 0])

\* selected corridors
UsedCorridors(a) ==
    Cardinality({c \in 1..5 : a[corridors_variables[c]] = 1})

\* demand of the selected orders, capacity of the selected corridors, per item
Demand(a, item) ==
    SumSeq([o \in 1..5 |->
               IF a[orders_variables[o]] = 1 THEN orders[o][item] ELSE 0])

Capacity(a, item) ==
    SumSeq([c \in 1..5 |->
               IF a[corridors_variables[c]] = 1 THEN corridors[c][item]
               ELSE 0])

\* a complete 0/1 assignment that satisfies every constraint of the wave model
Feasible(a, lb, ub) ==
    /\ DOMAIN a = AllVars
    /\ \A v \in AllVars : a[v] \in {0, 1}
    /\ lb <= Units(a) /\ Units(a) <= ub
    /\ \A item \in 1..5 : Demand(a, item) <= Capacity(a, item)

\* exhaustive enumeration of the 2^10 assignments, filtered
BruteForce ==
    [m \in WaveModels |->
        {a \in [AllVars -> {0, 1}] :
            Feasible(a, Instance(m).constraints[1].lb,
                        Instance(m).constraints[1].ub)}]

\* the assignment at position k of invocation r's output
Out(r, k) == heap[emitted[r][k]]

\* the invocation in progress (or just exhausted), and its output so far
Cur == run + 1

CurLen == Len(emitted[Cur])

\* a precedes b lexicographically on the values taken in the order of keys
LexLess(a, b, keys) ==
    \E k \in 1..Len(keys) :
        /\ a[keys[k]] < b[keys[k]]
        /\ \A j \in 1..(k - 1) : a[keys[j]] = b[keys[j]]

\* productivity of a is at least that of b (units per corridor, -1 if none)
AtLeast(a, b) ==
    IF UsedCorridors(b) = 0
    THEN TRUE
    ELSE /\ UsedCorridors(a) > 0
         /\ Units(a) * UsedCorridors(b) >= Units(b) * UsedCorridors(a)

(***************************************************************************)
(* C1  Soundness.  Every assignment yielded by backtracking(csp_instance)  *)
(* binds all ten variables to 0 or 1, has total selected units in          *)
(* [LB, UB] = [5, 12] and, for each item, demand of the selected orders at *)
(* most the capacity of the selected corridors: the assignment just        *)
(* yielded at every yield, and every element of the output once the        *)
(* generator is exhausted.                                                 *)
(***************************************************************************)
C1_Soundness ==
    model = "csp_instance" =>
        /\ step = "Yield" => Feasible(Out(Cur, CurLen), 5, 12)
        /\ Exhausted => \A k \in 1..CurLen : Feasible(Out(Cur, k), 5, 12)

C1_Witness ==
    /\ model = "csp_instance"
    /\ Exhausted
    /\ CurLen > 1

(***************************************************************************)
(* C2  Completeness.  When the generator is exhausted, the set of          *)
(* assignments it yielded equals the set of the 2^10 complete 0/1          *)
(* assignments that satisfy the demand range and the five capacity         *)
(* predicates: nothing feasible is lost to pruning, nothing else is added. *)
(***************************************************************************)
C2_Completeness ==
    (model \in WaveModels /\ Exhausted) =>
        {Out(Cur, k) : k \in 1..CurLen} = BruteForce[model]

C2_Witness ==
    /\ model = "csp_instance"
    /\ Exhausted
    /\ BruteForce[model] # {}
    /\ Cardinality(BruteForce[model]) < 1024

(***************************************************************************)
(* C3  No duplicates.  No two positions of one invocation's output hold    *)
(* the same assignment: an assignment just yielded differs from every      *)
(* earlier one, and all are pairwise distinct at exhaustion.               *)
(***************************************************************************)
C3_NoDuplicates ==
    /\ step = "Yield" =>
          \A k \in 1..(CurLen - 1) : Out(Cur, k) # Out(Cur, CurLen)
    /\ Exhausted =>
          Cardinality({Out(Cur, k) : k \in 1..CurLen}) = CurLen

C3_Witness ==
    /\ Exhausted
    /\ CurLen > 2

(***************************************************************************)
(* C4  Determinism and restartability.  The dict of the default argument   *)
(* stays empty, every invocation starts from it, and a later invocation    *)
(* yields the same assignments in the same order as the first one: what    *)
(* it yields equals the first invocation's element at that position, and   *)
(* at exhaustion the two outputs are equal position by position.           *)
(***************************************************************************)
C4_Restartable ==
    /\ heap[DefaultRef] = EmptyDict
    /\ stack # <<>> =>
          /\ stack[1].assignment = DefaultRef
          /\ heap[stack[1].assignment] = EmptyDict
    /\ (step = "Yield" /\ run >= 1) =>
          /\ CurLen <= Len(emitted[1])
          /\ Out(Cur, CurLen) = Out(1, CurLen)
    /\ (Exhausted /\ run >= 1) =>
          /\ CurLen = Len(emitted[1])
          /\ \A k \in 1..CurLen : Out(Cur, k) = Out(1, k)

C4_Witness ==
    /\ run >= 1
    /\ Exhausted
    /\ CurLen > 1

C6_EmptyDomainRejected ==
    (\E v \in Range(Instance(model).domains.keys) :
        Instance(model).domains.dom[v] = {}) =>
        /\ pc \in {"construct", "construct_failed"}
        /\ stack = <<>>
        /\ last_try.n = 0
        /\ \A r \in 1..NumRuns : emitted[r] = <<>>

C6_Witness ==
    /\ model = "empty_domain"
    /\ pc = "construct_failed"

(***************************************************************************)
(* C7  No solutions is not an error.  When the search over an              *)
(* unsatisfiable model is exhausted with nothing yielded, the selection    *)
(* and reporting code that follows does not raise.                         *)
(***************************************************************************)
C7_NoSolutionsNotFatal ==
    (AfterSearch /\ solutions = <<>>) => pc # "raised"

(***************************************************************************)
(* C8  Best-wave selection.  After each iteration of the selection loop    *)
(* best_solution is the solution at position best_index, best_obj is its   *)
(* productivity (units per selected corridor, -1 with no corridor), it is  *)
(* at least as productive as the solution just visited and strictly more   *)
(* if that one comes later; after the loop best_solution is the last of    *)
(* all solutions that attain the maximum productivity.                     *)
(***************************************************************************)
C8_BestWave ==
    (model \in WaveModels /\ idx >= 1) =>
        /\ best_index \in 1..idx
        /\ best_solution = solutions[best_index]
        /\ IF UsedCorridors(Out(1, best_index)) = 0
           THEN best_obj[1] = -best_obj[2]
           ELSE best_obj[1] * UsedCorridors(Out(1, best_index))
                    = Units(Out(1, best_index)) * best_obj[2]
        /\ step = "Select" =>
              /\ AtLeast(Out(1, best_index), Out(1, idx))
              /\ idx > best_index =>
                    ~AtLeast(Out(1, idx), Out(1, best_index))
        /\ (AfterSelection /\ step \in {"Select", "PrintBest"}) =>
              /\ idx = Len(solutions)
              /\ \A k \in 1..Len(solutions) :
                    /\ AtLeast(Out(1, best_index), Out(1, k))
                    /\ k > best_index =>
                          ~AtLeast(Out(1, k), Out(1, best_index))

\* the loop is over and an earlier solution ties with the one kept
C8_Witness ==
    /\ pc = "done"
    /\ \E k \in 1..(best_index - 1) :
          AtLeast(Out(1, k), Out(1, best_index))

(***************************************************************************)
(* C9  Early pruning.  Over csp_instance every frame with five or more     *)
(* bound variables has all of Pedido1..Pedido5 bound with total units in   *)
(* [5, 12], and with ten it is feasible; after every iteration of the      *)
(* loop a frame has been pushed if and only if the extended assignment     *)
(* passed the check, and an extension with fewer than ten bound variables  *)
(* is rejected exactly when it binds all five orders with total units      *)
(* outside [5, 12], so never by an item capacity.                          *)
(***************************************************************************)
C9_EarlyPruning ==
    model = "csp_instance" =>
        /\ \A k \in 1..Len(stack) :
              LET a == heap[stack[k].assignment]
              IN  /\ Cardinality(DOMAIN a) >= 5 =>
                        /\ OrderVars \subseteq DOMAIN a
                        /\ 5 <= Units(a) /\ Units(a) <= 12
                  /\ Cardinality(DOMAIN a) = 10 => Feasible(a, 5, 12)
        /\ step = "TryValue" =>
              /\ Cardinality(DOMAIN last_try.a) < 10 =>
                    (~last_try.ok <=>
                        /\ OrderVars \subseteq DOMAIN last_try.a
                        /\ ~(/\ 5 <= Units(last_try.a)
                             /\ Units(last_try.a) <= 12))
              /\ ~last_try.ok => Cardinality(DOMAIN last_try.a) \in {5, 10}
              /\ last_try.ok <=>
                    (Top.pc = "start" /\ heap[Top.assignment] = last_try.a)

\* a rejection at five bound variables, below frames that hold five or more
C9_Witness ==
    /\ model = "csp_instance"
    /\ step = "TryValue"
    /\ ~last_try.ok
    /\ Cardinality(DOMAIN last_try.a) = 5
    /\ CurLen > 0
    /\ Len(stack) >= 5

(***************************************************************************)
(* C10  Copy-on-branch.  No step changes the assignment of a frame that    *)
(* stays on the stack, nor an assignment already yielded; hence a frame    *)
(* that tries its next value still holds the bindings it was called with,  *)
(* which are one per enclosing frame.                                      *)
(***************************************************************************)
C10_CopyOnBranch ==
    [][ /\ \A k \in 1..Len(stack) :
              /\ Cardinality(DOMAIN heap[stack[k].assignment]) = k - 1
              /\ k <= Len(stack') =>
                    /\ stack'[k].assignment = stack[k].assignment
                    /\ heap'[stack'[k].assignment] = heap[stack[k].assignment]
        /\ \A r \in 1..NumRuns : \A k \in 1..Len(emitted[r]) :
              /\ emitted'[r][k] = emitted[r][k]
              /\ heap'[emitted'[r][k]] = heap[emitted[r][k]]
      ]_vars

\* a frame resumes its loop at its second value after a sub-search that
\* yielded, still holding one binding per enclosing frame
C10_Witness ==
    /\ stack # <<>>
    /\ Top.pc = "loop" /\ Top.i = 2
    /\ Len(stack) > 1
    /\ Len(emitted[1]) > 0
    /\ Cardinality(DOMAIN heap[Top.assignment]) = Len(stack) - 1

====
